---- MODULE Spec2Model ----
(***************************************************************************)
(* State-machine model of fsspec/implementations/ftp.py: FTPFileSystem     *)
(* (one FTP connection plus the directory-listing cache) and FTPFile       *)
(* (ranged reads by abort-on-limit streaming, buffered writes with         *)
(* staging, commit and discard).                                           *)
(*                                                                         *)
(* Paths and file names are Python strings; they are modelled as sequences *)
(* of one-character strings so that rstrip, rsplit, join and string        *)
(* comparison are computed, not assumed.                                   *)
(***************************************************************************)
EXTENDS Integers, Sequences, FiniteSets, TLC

(***************************************************************************)
(* Bounds of the model.                                                    *)
(***************************************************************************)
\* number of file handles opened in one behaviour, one after the other
\* (also the number of distinct uuid4 values drawn)
MaxOpens == 1
\* largest number of bytes written through one handle
MaxWrite == 2
\* size of the largest object the server holds at the start
MaxData == 3
\* largest byte offset a caller passes to _fetch_range ranges over
\* 0 .. size + FetchSlack
FetchSlack == 1

\* blocksize=2**16 of retrbinary / storbinary
blocksize == 65536

(***************************************************************************)
(* Python strings.                                                         *)
(***************************************************************************)
CharCode ==
    [c \in {".", "/", "0", "1", "2", "3", "4", "5", "6", "7", "8", "9",
            "a", "b", "d", "m", "p", "t", "u", "x"} |->
       CASE c = "." -> 46 [] c = "/" -> 47
         [] c = "0" -> 48 [] c = "1" -> 49 [] c = "2" -> 50 [] c = "3" -> 51
         [] c = "4" -> 52 [] c = "5" -> 53 [] c = "6" -> 54 [] c = "7" -> 55
         [] c = "8" -> 56 [] c = "9" -> 57
         [] c = "a" -> 97 [] c = "b" -> 98 [] c = "d" -> 100
         [] c = "m" -> 109 [] c = "p" -> 112 [] c = "t" -> 116
         [] c = "u" -> 117 [] c = "x" -> 120]

\* Python's str < str: lexicographic by code point
RECURSIVE StrLess(_, _)
StrLess(s, t) ==
    IF t = <<>> THEN FALSE
    ELSE IF s = <<>> THEN TRUE
    ELSE IF Head(s) = Head(t) THEN StrLess(Tail(s), Tail(t))
    ELSE CharCode[Head(s)] < CharCode[Head(t)]

\* str.rstrip('/')
RECURSIVE rstrip(_)
rstrip(s) ==
    IF s # <<>> /\ s[Len(s)] = "/" THEN rstrip(SubSeq(s, 1, Len(s) - 1))
    ELSE s

\* index of the last "/" of s, 0 when there is none
RECURSIVE LastSlash(_, _)
LastSlash(s, i) ==
    IF i = 0 THEN 0
    ELSE IF s[i] = "/" THEN i
    ELSE LastSlash(s, i - 1)

\* s.rsplit('/', 1)[0]
rsplitHead(s) ==
    IF LastSlash(s, Len(s)) = 0 THEN s
    ELSE SubSeq(s, 1, LastSlash(s, Len(s)) - 1)

\* s.rsplit('/', 1)[-1]
rsplitLast(s) ==
    SubSeq(s, LastSlash(s, Len(s)) + 1, Len(s))

\* '/'.join([a, b])
join(a, b) == a \o <<"/">> \o b

\* str(n) for n >= 0
RECURSIVE str(_)
str(n) ==
    LET d == <<"0", "1", "2", "3", "4", "5", "6", "7", "8", "9">>[(n % 10) + 1]
    IN IF n < 10 THEN <<d>> ELSE str(n \div 10) \o <<d>>

\* int(s) for a string of decimal digits
RECURSIVE int(_)
int(s) ==
    IF s = <<>> THEN 0
    ELSE int(SubSeq(s, 1, Len(s) - 1)) * 10 + (CharCode[s[Len(s)]] - 48)

\* sorted(list of str)
RECURSIVE InsertStr(_, _)
InsertStr(x, s) ==
    IF s = <<>> THEN <<x>>
    ELSE IF StrLess(x, Head(s)) THEN <<x>> \o s
    ELSE <<Head(s)>> \o InsertStr(x, Tail(s))

RECURSIVE sortedStr(_)
sortedStr(s) ==
    IF s = <<>> THEN <<>> ELSE InsertStr(Head(s), sortedStr(Tail(s)))

\* sorted(list of (fn, details)): tuples compare by fn first; the file
\* names of one listing are distinct, so the details are never compared
RECURSIVE InsertFile(_, _)
InsertFile(x, s) ==
    IF s = <<>> THEN <<x>>
    ELSE IF StrLess(x[1], Head(s)[1]) THEN <<x>> \o s
    ELSE <<Head(s)>> \o InsertFile(x, Tail(s))

RECURSIVE sortedFiles(_)
sortedFiles(s) ==
    IF s = <<>> THEN <<>> ELSE InsertFile(Head(s), sortedFiles(Tail(s)))

\* x[:k] of Python, k of either sign
SliceTo(x, k) ==
    LET stop == IF k < 0 THEN (IF Len(x) + k < 0 THEN 0 ELSE Len(x) + k)
                ELSE (IF k > Len(x) THEN Len(x) ELSE k)
    IN SubSeq(x, 1, stop)


(***************************************************************************)
(* The remote side: the objects the FTP server holds.                      *)
(***************************************************************************)
DirA == <<"/", "a">>
\* tempdir='/tmp', the default of FTPFileSystem.__init__
tempdir == <<"/", "t", "m", "p">>

FileX == join(DirA, <<"x">>)
FileB == join(DirA, <<"b">>)
SubD == join(DirA, <<"d">>)
UserPaths == {FileX, FileB, SubD}

Handles == 1 .. MaxOpens
\* str(uuid.uuid4()): the i-th value drawn; distinct draws are distinct
uuid4(i) == <<"u">> \o str(i)
StagePaths == {join(tempdir, uuid4(i)) : i \in Handles}
ObjPaths == UserPaths \cup StagePaths

NoObj == [type |-> "none", data |-> <<>>]
FileObj(d) == [type |-> "file", data |-> d]
DirObj == [type |-> "dir", data |-> <<>>]

\* the k-th byte a caller writes through handle h: no two written bytes
\* are equal, and none equals a byte of InitData
WriteByte(h, k) == 10 * h + k
InitData == [i \in 1 .. MaxData |-> i]

VARIABLES
    remote,     \* the server's objects: ObjPaths -> object
    server,     \* how the server answers MLSD: [dots, desc]
    dircache,   \* FTPFileSystem.dircache: normalised path -> raw listing
    hs,         \* the FTPFile handles, of which the caller holds the newest
    drawn,      \* number of uuid4 values drawn so far
    fetch,      \* the _fetch_range call in progress and the connection
    seen,       \* history: <<path, detail>> -> result of the first such ls
                \* since the listing of path was cached
    last        \* the last call: its arguments, commands and result

vars == <<remote, server, dircache, hs, drawn, fetch, seen, last>>

\* one command sent on the control connection
Cmd(c, a1, a2, r) == [cmd |-> c, arg |-> a1, arg2 |-> a2, rest |-> r]

NoSize == [tag |-> "none", s |-> <<>>, n |-> 0]
StrSize(s) == [tag |-> "str", s |-> s, n |-> 0]
IntSize(n) == [tag |-> "int", s |-> <<>>, n |-> n]
Dot == <<".">>
DotDot == <<".", ".">>

\* the facts of one MLSD line, as ftplib.FTP.mlsd yields them: strings
Facts(obj) ==
    [type |-> obj.type,
     size |-> IF obj.type = "file" THEN StrSize(str(Len(obj.data))) ELSE NoSize,
     name |-> <<>>]

RECURSIVE SetToSeq(_)
SetToSeq(S) ==
    IF S = {} THEN <<>>
    ELSE LET x == CHOOSE y \in S : TRUE IN <<x>> \o SetToSeq(S \ {x})

Reverse(s) == [i \in 1 .. Len(s) |-> s[Len(s) + 1 - i]]

DirExists(rem, path) ==
    \/ path \in {DirA, tempdir}
    \/ path \in ObjPaths /\ rem[path].type = "dir"

\* list(self.ftp.mlsd(path)): the server's listing of directory path
mlsd(rem, path) ==
    LET kids == {q \in ObjPaths : rem[q].type # "none" /\ rsplitHead(q) = path}
        named == sortedFiles(SetToSeq({<<rsplitLast(q), Facts(rem[q])>> : q \in kids}))
        dots == IF server.dots
                THEN << <<Dot, [type |-> "cdir", size |-> NoSize, name |-> <<>>]>>,
                        <<DotDot, [type |-> "pdir", size |-> NoSize, name |-> <<>>]>> >>
                ELSE <<>>
    IN IF server.desc THEN Reverse(dots \o named) ELSE dots \o named

(***************************************************************************)
(* FTPFileSystem: the directory-listing cache.                             *)
(***************************************************************************)
EmptyCache == [k \in {} |-> <<>>]

\* invalidate_cache(path), path is not None: self.dircache.pop(path, None)
invalidate_cache(dc, path) == [k \in (DOMAIN dc) \ {path} |-> dc[k]]

\* invalidate_cache(): self.dircache.clear()
invalidate_all(dc) == [k \in {} |-> <<>>]

\* lsMiss looking the path up as the caller wrote it
lsMissUnstripped(dc, path) == path \notin DOMAIN dc

\* ls, line 63: the listing is fetched when the stripped path is no key
lsMiss(dc, path) == rstrip(path) \notin DOMAIN dc

\* ls, lines 62-65: the cache after the lookup
lsFill(dc, rem, path) ==
    IF lsMiss(dc, path)
    THEN [k \in (DOMAIN dc) \cup {rstrip(path)} |->
            IF k = rstrip(path) THEN mlsd(rem, k) ELSE dc[k]]
    ELSE dc

\* lsDetails without the else branch that forces the size to 0
lsDetailsFilesOnly(path, f) ==
    [f[2] EXCEPT
       !.name = join(path, f[1]),
       !.size = IF f[2].type = "file"
                THEN IntSize(IF @.tag = "int" THEN @.n ELSE int(@.s))
                ELSE @]

\* ls, lines 72-76: the details dict of entry f after the loop body
lsDetails(path, f) ==
    [f[2] EXCEPT
       !.name = join(path, f[1]),
       !.size = IF f[2].type = "file"
                THEN IntSize(IF @.tag = "int" THEN @.n ELSE int(@.s))
                ELSE IntSize(0)]

lsSkipped(fn) == fn \in {Dot, DotDot}

\* ls: the cache it leaves (the details dicts of the cache are updated in
\* place when detail is true)
lsCache(dc, rem, path, detail) ==
    LET c == lsFill(dc, rem, path)
        p == rstrip(path)
    IN IF detail
       THEN [c EXCEPT ![p] =
               [i \in 1 .. Len(@) |->
                  IF lsSkipped(@[i][1]) THEN @[i]
                  ELSE <<@[i][1], lsDetails(p, @[i])>>]]
       ELSE c

\* ls(path, detail=False), line 67
lsNames(dc, rem, path) ==
    LET files == lsFill(dc, rem, path)[rstrip(path)]
    IN sortedStr([i \in 1 .. Len(files) |-> join(rstrip(path), files[i][1])])

\* ls(path, detail=True), lines 68-78
lsEntries(dc, rem, path) ==
    LET files == sortedFiles(lsFill(dc, rem, path)[rstrip(path)])
        kept == SelectSeq(files, LAMBDA f : ~lsSkipped(f[1]))
    IN [i \in 1 .. Len(kept) |-> lsDetails(rstrip(path), kept[i])]


(***************************************************************************)
(* The record of the last call, and the history of first results.          *)
(***************************************************************************)
NoLast ==
    [op |-> "none", path |-> <<>>, path2 |-> <<>>, detail |-> FALSE, h |-> 0,
     ok |-> TRUE, err |-> "", cmds |-> <<>>, names |-> <<>>, entries |-> <<>>,
     data |-> <<>>, start |-> 0, end |-> 0, keys |-> {}, first |-> FALSE,
     listed |-> FALSE]

\* the history kept for the keys still cached in dc
Remember(sn, dc) ==
    [kd \in {e \in DOMAIN sn : rstrip(e[1]) \in DOMAIN dc} |-> sn[kd]]

\* the history after ls(path, detail) returned res
Record(sn, path, detail, res) ==
    IF <<path, detail>> \in DOMAIN sn THEN sn
    ELSE sn @@ (<<path, detail>> :> res)

(***************************************************************************)
(* The ranged read in progress.                                            *)
(***************************************************************************)
NoFetch ==
    [st |-> "idle", h |-> 0, path |-> <<>>, start |-> 0, end |-> 0, pos |-> 0,
     out |-> <<>>, total |-> 0, chunks |-> 0, aborts |-> 0, conn |-> "idle",
     log |-> <<>>]

\* (log is history: what the callback did, in the order it did it)

Idle == fetch.st = "idle"

(***************************************************************************)
(* FTPFileSystem: the operations.                                          *)
(***************************************************************************)
LsPaths == {DirA, DirA \o <<"/">>, tempdir}

ls(path, detail) ==
    /\ Idle
    /\ dircache' = lsCache(dircache, remote, path, detail)
    /\ LET res == [names |-> IF detail THEN <<>> ELSE lsNames(dircache, remote, path),
                   entries |-> IF detail THEN lsEntries(dircache, remote, path) ELSE <<>>]
       IN /\ last' = [NoLast EXCEPT
                        !.op = "ls", !.path = path, !.detail = detail,
                        !.cmds = IF lsMiss(dircache, path)
                                 THEN <<Cmd("MLSD", rstrip(path), <<>>, -1)>> ELSE <<>>,
                        !.names = res.names, !.entries = res.entries]
          /\ seen' = Record(seen, path, detail, res)
    /\ UNCHANGED <<remote, server, hs, drawn, fetch>>

\* info, line 84: the entries of files whose name is path
infoMatches(files, path) == SelectSeq(files, LAMBDA f : f.name = path)

info(path) ==
    /\ Idle
    /\ LET parent == rsplitHead(path)
           files == lsEntries(dircache, remote, parent)
           found == infoMatches(files, path)
       IN /\ dircache' = lsCache(dircache, remote, parent, TRUE)
          /\ seen' = Record(seen, parent, TRUE, [names |-> <<>>, entries |-> files])
          /\ last' = [NoLast EXCEPT
                        !.op = "info", !.path = path, !.detail = TRUE,
                        !.cmds = IF lsMiss(dircache, parent)
                                 THEN <<Cmd("MLSD", rstrip(parent), <<>>, -1)>> ELSE <<>>,
                        !.ok = found # <<>>,
                        !.err = IF found = <<>> THEN "IndexError" ELSE "",
                        !.entries = IF found = <<>> THEN <<>> ELSE <<found[1]>>]
    /\ UNCHANGED <<remote, server, hs, drawn, fetch>>

InvalidatePaths == LsPaths

InvalidateCache(path) ==
    /\ Idle
    /\ dircache' = invalidate_cache(dircache, path)
    /\ seen' = Remember(seen, dircache')
    /\ last' = [NoLast EXCEPT !.op = "invalidate_cache", !.path = path,
                  !.keys = DOMAIN dircache,
                  !.listed = (\E d \in BOOLEAN : <<path, d>> \in DOMAIN seen)]
    /\ UNCHANGED <<remote, server, hs, drawn, fetch>>

InvalidateAll ==
    /\ Idle
    /\ dircache' = invalidate_all(dircache)
    /\ seen' = Remember(seen, dircache')
    /\ last' = [NoLast EXCEPT !.op = "invalidate_cache_all", !.keys = DOMAIN dircache]
    /\ UNCHANGED <<remote, server, hs, drawn, fetch>>

\* ftp.delete(path): the server deletes a file; anything else is refused
deleteOk(rem, path) == path \in ObjPaths /\ rem[path].type = "file"

\* rmCache dropping the entry of the path itself, not of its parent
rmCacheOwnKey(dc, path) == invalidate_cache(dc, path)

\* _rm, line 94: the cache after a delete that succeeded
rmCache(dc, path) == invalidate_cache(dc, rsplitHead(path))

\* _rm(path) on files rem and cache dc: <<ok, rem', dc', cmds>>
rmCall(rem, dc, path) ==
    IF deleteOk(rem, path)
    THEN [ok |-> TRUE, rem |-> [rem EXCEPT ![path] = NoObj],
          dc |-> rmCache(dc, path), cmds |-> <<Cmd("DELE", path, <<>>, -1)>>]
    ELSE [ok |-> FALSE, rem |-> rem, dc |-> dc,
          cmds |-> <<Cmd("DELE", path, <<>>, -1)>>]

rm(path) ==
    /\ Idle
    /\ LET r == rmCall(remote, dircache, path)
       IN /\ remote' = r.rem
          /\ dircache' = r.dc
          /\ seen' = Remember(seen, r.dc)
          /\ last' = [NoLast EXCEPT !.op = "rm", !.path = path, !.ok = r.ok,
                        !.keys = DOMAIN dircache,
                        !.err = IF r.ok THEN "" ELSE "error_perm", !.cmds = r.cmds]
    /\ UNCHANGED <<server, hs, drawn, fetch>>

\* ftp.rename(path1, path2): the source exists, and the destination is
\* free or both are files (the destination is then replaced)
renameOk(rem, path1, path2) ==
    /\ path1 \in ObjPaths /\ path2 \in ObjPaths
    /\ rem[path1].type # "none"
    /\ \/ rem[path2].type = "none"
       \/ rem[path1].type = "file" /\ rem[path2].type = "file"

\* mvCache dropping the entry of the source's parent only
mvCacheSourceOnly(dc, path1, path2) == invalidate_cache(dc, rsplitHead(path1))

\* mv, lines 104-105: the cache after a rename that succeeded
mvCache(dc, path1, path2) ==
    invalidate_cache(invalidate_cache(dc, rsplitHead(path1)), rsplitHead(path2))

mvCall(rem, dc, path1, path2) ==
    IF renameOk(rem, path1, path2)
    THEN [ok |-> TRUE,
          rem |-> IF path1 = path2 THEN rem
                  ELSE [rem EXCEPT ![path1] = NoObj, ![path2] = rem[path1]],
          dc |-> mvCache(dc, path1, path2),
          cmds |-> <<Cmd("RNFR", path1, <<>>, -1), Cmd("RNTO", path2, <<>>, -1)>>]
    ELSE [ok |-> FALSE, rem |-> rem, dc |-> dc,
          cmds |-> IF path1 \in ObjPaths /\ rem[path1].type # "none"
                   THEN <<Cmd("RNFR", path1, <<>>, -1), Cmd("RNTO", path2, <<>>, -1)>>
                   ELSE <<Cmd("RNFR", path1, <<>>, -1)>>]

mv(path1, path2) ==
    /\ Idle
    /\ LET r == mvCall(remote, dircache, path1, path2)
       IN /\ remote' = r.rem
          /\ dircache' = r.dc
          /\ seen' = Remember(seen, r.dc)
          /\ last' = [NoLast EXCEPT !.op = "mv", !.path = path1, !.path2 = path2,
                        !.keys = DOMAIN dircache,
                        !.ok = r.ok, !.err = IF r.ok THEN "" ELSE "error_perm",
                        !.cmds = r.cmds]
    /\ UNCHANGED <<server, hs, drawn, fetch>>

\* mkdirCache dropping the entry of the new directory's parent
mkdirCacheDropsParent(dc, path) == invalidate_cache(dc, rsplitHead(path))

\* mkdir, lines 96-97: the cache after the call; nothing touches it
mkdirCache(dc, path) == dc

\* rmdir, lines 99-100: the cache after the call; nothing touches it
rmdirCache(dc, path) == dc

mkdir(path) ==
    /\ Idle
    /\ dircache' = mkdirCache(dircache, path)
    /\ seen' = Remember(seen, dircache')
    /\ remote' = IF remote[path].type = "none"
                 THEN [remote EXCEPT ![path] = DirObj] ELSE remote
    /\ last' = [NoLast EXCEPT !.op = "mkdir", !.path = path,
                  !.ok = (remote[path].type = "none"),
                  !.err = IF remote[path].type = "none" THEN "" ELSE "error_perm",
                  !.keys = DOMAIN dircache,
                  !.cmds = <<Cmd("MKD", path, <<>>, -1)>>]
    /\ UNCHANGED <<server, hs, drawn, fetch>>

rmdir(path) ==
    /\ Idle
    /\ dircache' = rmdirCache(dircache, path)
    /\ seen' = Remember(seen, dircache')
    /\ remote' = IF remote[path].type = "dir"
                 THEN [remote EXCEPT ![path] = NoObj] ELSE remote
    /\ last' = [NoLast EXCEPT !.op = "rmdir", !.path = path,
                  !.ok = (remote[path].type = "dir"),
                  !.err = IF remote[path].type = "dir" THEN "" ELSE "error_perm",
                  !.keys = DOMAIN dircache,
                  !.cmds = <<Cmd("RMD", path, <<>>, -1)>>]
    /\ UNCHANGED <<server, hs, drawn, fetch>>


(***************************************************************************)
(* FTPFile: construction, writes, commit and discard.                      *)
(***************************************************************************)
NoHandle ==
    [st |-> "new", mode |-> "", autocommit |-> TRUE, path |-> <<>>,
     target |-> <<>>, hasTarget |-> FALSE, buffer |-> <<>>, offset |-> 0,
     written |-> <<>>, uploads |-> 0, fin |-> "none",
     before |-> NoObj, late |-> FALSE]

\* (written, uploads, fin, before and late are history: the bytes written so
\* far, the number of _upload_chunk calls, the first commit or discard that
\* succeeded, the object at the opened path when the handle was made, and
\* whether an upload followed that first commit or discard)

\* a handle the caller no longer holds
Dropped == [NoHandle EXCEPT !.st = "dropped"]

OpenPaths == {FileX, FileB}
Modes == {"rb", "wb"}

\* AbstractBufferedFile.__init__: the handle before FTPFile.__init__ goes on
baseInit(path, mode, autocommit) ==
    [NoHandle EXCEPT !.st = "open", !.mode = mode, !.autocommit = autocommit,
                     !.path = path]

\* FTPFile.__init__, line 118: kwargs.get('autocommit', False) is False
stages(mode, autocommit) == autocommit = FALSE

\* FTPFile.__init__, line 120: the staging path, from the n-th uuid4
stagingPath(n) == join(tempdir, uuid4(n))

\* FTPFile.__init__, lines 117-120
FTPFile(path, mode, autocommit, n) ==
    LET f == baseInit(path, mode, autocommit)
    IN IF stages(mode, autocommit)
       THEN [f EXCEPT !.target = f.path, !.hasTarget = TRUE, !.path = stagingPath(n)]
       ELSE f

\* _open: a new FTPFile on path
open(h, path, mode, autocommit) ==
    /\ Idle
    /\ hs[h].st = "new"
    /\ \A g \in Handles : g < h => hs[g].st # "new"
    /\ hs' = [g \in Handles |->
                IF g = h
                THEN [FTPFile(path, mode, autocommit, drawn + 1) EXCEPT
                        !.before = remote[path]]
                ELSE IF g < h THEN Dropped ELSE hs[g]]
    /\ drawn' = IF stages(mode, autocommit) THEN drawn + 1 ELSE drawn
    /\ last' = [NoLast EXCEPT !.op = "open", !.path = path, !.h = h]
    /\ UNCHANGED <<remote, server, dircache, seen, fetch>>

\* AbstractBufferedFile.write: the bytes go to the local buffer
write(h) ==
    /\ Idle
    /\ hs[h].st = "open" /\ hs[h].mode = "wb"
    /\ Len(hs[h].written) < MaxWrite
    /\ LET b == WriteByte(h, Len(hs[h].written) + 1)
       IN hs' = [hs EXCEPT ![h].buffer = Append(@, b), ![h].written = Append(@, b)]
    /\ last' = [NoLast EXCEPT !.op = "write", !.h = h]
    /\ UNCHANGED <<remote, server, dircache, seen, drawn, fetch>>

RECURSIVE Zeros(_)
Zeros(n) == IF n <= 0 THEN <<>> ELSE <<0>> \o Zeros(n - 1)

\* the server's STOR after REST rest: the object keeps its first rest
\* bytes (REST 0 starts it anew) and data follows them
storeAt(old, rest, data) ==
    IF rest = 0 THEN data
    ELSE LET kept == SubSeq(old, 1, IF rest < Len(old) THEN rest ELSE Len(old))
             tail == SubSeq(old, rest + Len(data) + 1, Len(old))
         IN kept \o Zeros(rest - Len(old)) \o data \o tail

\* uploadPath naming the target of a staged handle
uploadToTarget(f) == IF f.hasTarget THEN f.target ELSE f.path

\* _upload_chunk, line 161: the path the store command names
uploadPath(f) == f.path

\* uploadRest without the restart offset: every store starts the object anew
uploadRestZero(f) == 0

\* _upload_chunk, line 162: rest=self.offset
uploadRest(f) == f.offset

\* _upload_chunk, lines 160-162: the buffer, read from its start
uploadData(f) == f.buffer

\* _upload_chunk: the server's objects after the store
upload_chunk(rem, f) ==
    [rem EXCEPT ![uploadPath(f)] =
       FileObj(storeAt(IF @.type = "file" THEN @.data ELSE <<>>,
                       uploadRest(f), uploadData(f)))]

\* AbstractBufferedFile.flush: upload the bytes buffered, advance the
\* offset by their number and start a new buffer
flush(h) ==
    /\ Idle
    /\ hs[h].st = "open" /\ hs[h].mode = "wb"
    /\ hs[h].buffer # <<>>
    /\ remote' = upload_chunk(remote, hs[h])
    /\ hs' = [hs EXCEPT ![h].offset = @ + Len(hs[h].buffer), ![h].buffer = <<>>,
                        ![h].uploads = @ + 1,
                        ![h].late = (@ \/ hs[h].fin # "none")]
    /\ last' = [NoLast EXCEPT !.op = "upload_chunk", !.h = h, !.path = uploadPath(hs[h]),
                  !.cmds = <<Cmd("STOR", uploadPath(hs[h]), <<>>, uploadRest(hs[h]))>>]
    /\ UNCHANGED <<server, dircache, seen, drawn, fetch>>

\* commit, line 123: self.fs.mv(self.path, self.target); a handle that did
\* not stage has no target attribute
commit(h) ==
    /\ Idle
    /\ hs[h].st = "open"
    /\ IF hs[h].hasTarget
       THEN LET r == mvCall(remote, dircache, hs[h].path, hs[h].target)
            IN /\ remote' = r.rem
               /\ dircache' = r.dc
               /\ seen' = Remember(seen, r.dc)
               /\ hs' = [hs EXCEPT ![h].fin = IF r.ok /\ @ = "none" THEN "committed" ELSE @]
               /\ last' = [NoLast EXCEPT !.op = "commit", !.h = h, !.path = hs[h].path,
                             !.path2 = hs[h].target, !.ok = r.ok,
                             !.keys = DOMAIN dircache, !.first = (hs[h].fin = "none"),
                             !.err = IF r.ok THEN "" ELSE "error_perm", !.cmds = r.cmds]
       ELSE /\ last' = [NoLast EXCEPT !.op = "commit", !.h = h, !.path = hs[h].path,
                          !.ok = FALSE, !.err = "AttributeError"]
            /\ UNCHANGED <<remote, dircache, seen, hs>>
    /\ UNCHANGED <<server, drawn, fetch>>

\* AbstractFileSystem.rm(path): removes the one path through _rm
fsRm(rem, dc, path) == rmCall(rem, dc, path)

\* discardPath naming the target of a staged handle
discardTarget(f) == IF f.hasTarget THEN f.target ELSE f.path

\* discard, line 126: the path handed to rm
discardPath(f) == f.path

\* discard, line 126: self.fs.rm(self.path)
discard(h) ==
    /\ Idle
    /\ hs[h].st = "open"
    /\ LET r == fsRm(remote, dircache, discardPath(hs[h]))
       IN /\ remote' = r.rem
          /\ dircache' = r.dc
          /\ seen' = Remember(seen, r.dc)
          /\ hs' = [hs EXCEPT ![h].fin = IF r.ok /\ @ = "none" THEN "discarded" ELSE @]
          /\ last' = [NoLast EXCEPT !.op = "discard", !.h = h, !.path = hs[h].path,
                        !.path2 = hs[h].target, !.ok = r.ok,
                        !.keys = DOMAIN dircache, !.first = (hs[h].fin = "none"),
                        !.err = IF r.ok THEN "" ELSE "error_perm", !.cmds = r.cmds]
    /\ UNCHANGED <<server, drawn, fetch>>


(***************************************************************************)
(* FTPFile._fetch_range: one retrieve, streamed in chunks to the callback. *)
(***************************************************************************)
Min(a, b) == IF a < b THEN a ELSE b

\* the bytes of the object that the server has still to send
Unsent(f) == Len(remote[f.path].data) - f.pos

\* fetchBegin without rest=start: the server streams from byte 0
fetchBeginNoRest(h, start, end) ==
    [NoFetch EXCEPT !.st = "streaming", !.h = h, !.path = hs[h].path,
                    !.start = start, !.end = end, !.pos = 0, !.conn = "retr"]

\* _fetch_range, lines 137-138 and 153-154: RETR self.path with rest=start
fetchBegin(h, start, end) ==
    [NoFetch EXCEPT !.st = "streaming", !.h = h, !.path = hs[h].path,
                    !.start = start, !.end = end, !.pos = start, !.conn = "retr"]

\* truncated cutting at the range length, x[:end - start]
truncatedAtLength(x, f) == SliceTo(x, f.end - f.start)

\* callback, line 143: the chunk cut at the boundary
truncated(x, f) == SliceTo(x, (f.end - f.start) - (f.total + Len(x)))

\* callback aborting as soon as the range is full, total >= end - start
callbackAbortsWhenFull(f, x) ==
    LET total == f.total + Len(x)
    IN IF total >= f.end - f.start
       THEN [f EXCEPT !.total = total, !.out = @ \o truncated(x, f),
                      !.chunks = @ + 1, !.aborts = @ + 1, !.conn = "aborted",
                      !.log = @ \o <<"append", "abort">>,
                      !.st = "done"]
       ELSE [f EXCEPT !.total = total, !.out = @ \o x, !.chunks = @ + 1,
                      !.log = @ \o <<"append">>]

\* callback(x), lines 140-150, for the call f in progress; st = "done" when
\* TransferDone is raised
callback(f, x) ==
    LET total == f.total + Len(x)
    IN IF total > f.end - f.start
       THEN [f EXCEPT !.total = total, !.out = @ \o truncated(x, f),
                      !.chunks = @ + 1, !.aborts = @ + 1, !.conn = "aborted",
                      !.log = @ \o <<"append", "abort">>,
                      !.st = "done"]
       ELSE IF total = f.end - f.start
       THEN [f EXCEPT !.total = total, !.out = @ \o x, !.chunks = @ + 1,
                      !.log = @ \o <<"append">>,
                      !.conn = "unfinished", !.st = "done"]
       ELSE [f EXCEPT !.total = total, !.out = @ \o x, !.chunks = @ + 1,
                      !.log = @ \o <<"append">>]

\* _fetch_range, lines 155-157: what the call returns
fetchResult(f) == f.out

FetchCmds(f) ==
    <<Cmd("RETR", f.path, <<>>, f.start)>>
    \o (IF f.aborts > 0 THEN <<Cmd("ABOR", <<>>, <<>>, -1)>> ELSE <<>>)

FetchReturn(f) ==
    [NoLast EXCEPT !.op = "fetch_range", !.h = f.h, !.path = f.path,
                   !.start = f.start, !.end = f.end, !.data = fetchResult(f),
                   !.cmds = FetchCmds(f)]

fetch_range(h, start, end) ==
    /\ Idle
    /\ hs[h].st = "open" /\ hs[h].mode = "rb"
    /\ hs[h].path \in ObjPaths /\ remote[hs[h].path].type = "file"
    /\ start \in 0 .. Len(remote[hs[h].path].data)
    /\ end \in 0 .. Len(remote[hs[h].path].data) + FetchSlack
    /\ fetch' = fetchBegin(h, start, end)
    /\ last' = [NoLast EXCEPT !.op = "retr", !.h = h, !.path = hs[h].path,
                  !.start = start, !.end = end]
    /\ UNCHANGED <<remote, server, dircache, seen, hs, drawn>>

\* retrbinary on a path that holds no file: the server refuses the RETR and
\* the error leaves _fetch_range
retrRefused(h, start, end) ==
    /\ Idle
    /\ hs[h].st = "open" /\ hs[h].mode = "rb"
    /\ remote[hs[h].path].type # "file"
    /\ last' = [NoLast EXCEPT !.op = "fetch_error", !.h = h, !.path = hs[h].path,
                  !.start = start, !.end = end, !.ok = FALSE,
                  !.err = "error_perm",
                  !.cmds = <<Cmd("RETR", hs[h].path, <<>>, start)>>]
    /\ UNCHANGED <<remote, server, dircache, seen, hs, drawn, fetch>>

\* the server sends the next n bytes and retrbinary hands them to callback
chunk(n) ==
    /\ fetch.st = "streaming"
    /\ n \in 1 .. Min(blocksize, Unsent(fetch))
    /\ LET x == SubSeq(remote[fetch.path].data, fetch.pos + 1, fetch.pos + n)
           f == callback([fetch EXCEPT !.pos = @ + n], x)
       IN IF f.st = "done"
          THEN /\ fetch' = [f EXCEPT !.st = "idle"]
               /\ last' = FetchReturn(f)
          ELSE /\ fetch' = f
               /\ last' = [last EXCEPT !.op = "chunk"]
    /\ UNCHANGED <<remote, server, dircache, seen, hs, drawn>>

\* the server has sent the whole object: retrbinary returns
eof ==
    /\ fetch.st = "streaming"
    /\ Unsent(fetch) = 0
    /\ fetch' = [fetch EXCEPT !.st = "idle", !.conn = "idle"]
    /\ last' = FetchReturn(fetch)
    /\ UNCHANGED <<remote, server, dircache, seen, hs, drawn>>

(***************************************************************************)
(* The specifications.  Init is the session after construction, with one   *)
(* file and one directory on the server.  SpecFs runs the path-level       *)
(* operations, SpecFile the write handles with listings, SpecRead the      *)
(* ranged reads over objects of every size up to MaxData, and Spec all of  *)
(* them together.                                                          *)
(***************************************************************************)
InitWith(data, servers) ==
    /\ remote = [p \in ObjPaths |->
                   IF p = FileX THEN FileObj(data)
                   ELSE IF p = SubD THEN DirObj ELSE NoObj]
    /\ server \in servers
    /\ dircache = EmptyCache
    /\ hs = [h \in Handles |-> NoHandle]
    /\ drawn = 0
    /\ fetch = NoFetch
    /\ seen = [kd \in {} |-> <<>>]
    /\ last = NoLast

Servers == [dots : BOOLEAN, desc : BOOLEAN]

Init == InitWith(InitData, Servers)

InitFile == InitWith(InitData, {[dots |-> TRUE, desc |-> TRUE]})

InitRead == \E n \in 0 .. MaxData : InitWith(SubSeq(InitData, 1, n), Servers)

NextFs ==
    \/ \E p \in LsPaths, d \in BOOLEAN : ls(p, d)
    \/ \E p \in UserPaths : info(p)
    \/ \E p \in InvalidatePaths : InvalidateCache(p)
    \/ InvalidateAll
    \/ \E p \in UserPaths : rm(p)
    \/ \E p \in OpenPaths, q \in OpenPaths : mv(p, q)
    \/ mkdir(SubD)
    \/ rmdir(SubD)

NextFile ==
    \/ \E h \in Handles, p \in OpenPaths, a \in BOOLEAN : open(h, p, "wb", a)
    \/ \E h \in Handles : write(h)
    \/ \E h \in Handles : flush(h)
    \/ \E h \in Handles : commit(h)
    \/ \E h \in Handles : discard(h)
    \/ \E p \in {DirA, tempdir} : ls(p, FALSE)

NextRead ==
    \/ \E h \in Handles, p \in OpenPaths, a \in BOOLEAN : open(h, p, "rb", a)
    \/ \E h \in Handles, s \in 0 .. MaxData, e \in 0 .. MaxData + FetchSlack :
          fetch_range(h, s, e)
    \/ \E h \in Handles, s \in 0 .. MaxData, e \in 0 .. MaxData + FetchSlack :
          retrRefused(h, s, e)
    \/ \E n \in 1 .. MaxData : chunk(n)
    \/ eof

\* the paths renamed under SpecMv: two in DirA and the rest in tempdir
MvPaths == OpenPaths \cup StagePaths

NextMv ==
    \/ \E p \in {DirA, tempdir}, d \in BOOLEAN : ls(p, d)
    \/ \E p \in MvPaths, q \in MvPaths : mv(p, q)

Next == NextFs \/ NextFile \/ NextRead \/ NextMv

SpecFs == Init /\ [][NextFs]_vars

SpecFile == InitFile /\ [][NextFile]_vars

SpecRead == InitRead /\ [][NextRead]_vars

SpecMv == Init /\ [][NextMv]_vars

Spec == Init /\ [][Next]_vars


(***************************************************************************)
(* Properties of the ranged read, checked under SpecRead.                  *)
(***************************************************************************)
\* the contents of the object the last _fetch_range read
Fetched == remote[last.path].data

\* C1: for an object of size S and 0 <= start <= end <= S, under every
\* chunking of the stream that begins at start, _fetch_range(start, end)
\* returns exactly end - start bytes, the slice [start, end) of the object.
C1_FetchRangeIsSlice ==
    (last.op = "fetch_range" /\ last.start <= last.end /\ last.end <= Len(Fetched))
    => /\ Len(last.data) = last.end - last.start
       /\ last.data = SubSeq(Fetched, last.start + 1, last.end)

\* a range that ends before the end of the object, received in several
\* chunks of which the last was cut
C1_Witness ==
    /\ last.op = "fetch_range"
    /\ last.start < last.end /\ last.end < Len(Fetched)
    /\ fetch.chunks >= 2 /\ fetch.aborts = 1

\* C2: for start <= S < end, _fetch_range(start, end) returns exactly the
\* S - start bytes of the slice [start, S), without padding and without an
\* error, under every chunking.
C2_FetchRangePastEnd ==
    (last.op = "fetch_range" /\ last.start <= Len(Fetched) /\ Len(Fetched) < last.end)
    => /\ Len(last.data) = Len(Fetched) - last.start
       /\ last.data = SubSeq(Fetched, last.start + 1, Len(Fetched))
       /\ last.ok /\ last.err = ""

\* a range that starts inside the object and ends past it, received in
\* several chunks
C2_Witness ==
    /\ last.op = "fetch_range"
    /\ 0 < last.start /\ last.start < Len(Fetched) /\ Len(Fetched) < last.end
    /\ fetch.chunks >= 2 /\ fetch.aborts = 0


(***************************************************************************)
(* Properties of the listing cache, checked under SpecFs.                  *)
(***************************************************************************)
RECURSIVE IsSortedStr(_)
IsSortedStr(s) ==
    \/ Len(s) < 2
    \/ /\ ~StrLess(s[2], s[1])
       /\ IsSortedStr(Tail(s))

NoDuplicates(s) == \A i, j \in 1 .. Len(s) : s[i] = s[j] => i = j

\* the result of the last call was served from the cache
LastHit == last.cmds = <<>>

\* C3: list(path, detailed=false) returns a lexicographically sorted
\* sequence of fully-qualified child paths, path + "/" + name, without
\* duplicates and without "." and ".." entries, on a miss and on a hit.
C3_NamesSortedNoDots ==
    (last.op = "ls" /\ ~last.detail)
    => /\ IsSortedStr(last.names)
       /\ NoDuplicates(last.names)
       /\ \A i \in 1 .. Len(last.names) :
             /\ rsplitHead(last.names[i]) = rstrip(last.path)
             /\ rsplitLast(last.names[i]) \notin {Dot, DotDot}

\* C4: after invalidate_cache(p), for a path p that an earlier list(p) had
\* cached, the next list(p) with the same string p is a cache miss, also
\* for p written with a trailing separator; after invalidate_cache() the
\* next list of every path is a miss.
C4_InvalidateThenMiss ==
    /\ (last.op = "invalidate_cache" /\ last.listed) => lsMiss(dircache, last.path)
    /\ last.op = "invalidate_cache_all" => \A p \in LsPaths : lsMiss(dircache, p)

\* C5: a list(path, detailed) call on a path whose listing an earlier call
\* cached, nothing having invalidated it since, sends no listing command,
\* and returns what the first such call with the same detailed returned;
\* the path may be written with or without a trailing separator and the
\* directory may be empty.
C5_SecondListFromCache ==
    [][\A p \in LsPaths, d \in BOOLEAN :
         (last'.op = "ls" /\ last'.path = p /\ last'.detail = d)
         => \A q \in LsPaths :
               rstrip(q) = rstrip(p)
               => /\ (\E d0 \in BOOLEAN : <<q, d0>> \in DOMAIN seen)
                     => last'.cmds = <<>>
                  /\ <<q, d>> \in DOMAIN seen
                     => [names |-> last'.names, entries |-> last'.entries]
                           = seen[<<q, d>>]]_vars

\* a detailed listing of /a/ served from the cache filled by an earlier
\* detailed listing that returned entries
C5_Witness ==
    /\ last.op = "ls" /\ last.detail /\ LastHit
    /\ last.path = DirA \o <<"/">>
    /\ <<DirA, TRUE>> \in DOMAIN seen
    /\ seen[<<DirA, TRUE>>].entries = last.entries
    /\ Len(last.entries) >= 2

\* C9: after a successful remove(path), list(parent of path) does not
\* return path, with the parent written with or without a trailing
\* separator, detailed or not, whatever the cache held before the remove.
C9_RemovedNotListed ==
    (last.op = "rm" /\ last.ok)
    => \A pp \in {rsplitHead(last.path), rsplitHead(last.path) \o <<"/">>} :
          /\ \A i \in 1 .. Len(lsNames(dircache, remote, pp)) :
                lsNames(dircache, remote, pp)[i] # last.path
          /\ \A i \in 1 .. Len(lsEntries(dircache, remote, pp)) :
                lsEntries(dircache, remote, pp)[i].name # last.path

\* a file removed while its parent's listing was cached
C9_Witness ==
    /\ last.op = "rm" /\ last.ok
    /\ rsplitHead(last.path) \in last.keys

\* the entry e is what ls reports for the object it names
EntryWellFormed(e) ==
    /\ e.size.tag = "int"
    /\ e.type = "file" => e.size.n = Len(remote[e.name].data)
    /\ e.type # "file" => e.size.n = 0
    /\ rsplitLast(e.name) \notin {Dot, DotDot}

\* C10: info(path) returns the entry of the parent's detailed listing whose
\* name is path, with size 0 when its kind is not file and the integer
\* value of the reported size when it is; every record of
\* list(path, detailed=true) is so, and the records are sorted by name and
\* hold no "." or "..".
C10_InfoAndDetailedEntries ==
    /\ (last.op = "info" /\ last.ok)
       => /\ Len(last.entries) = 1
          /\ last.entries[1].name = last.path
          /\ EntryWellFormed(last.entries[1])
          /\ \E i \in 1 .. Len(lsEntries(dircache, remote, rsplitHead(last.path))) :
                lsEntries(dircache, remote, rsplitHead(last.path))[i] = last.entries[1]
    /\ (last.op = "ls" /\ last.detail)
       => /\ \A i \in 1 .. Len(last.entries) :
                /\ EntryWellFormed(last.entries[i])
                /\ rsplitHead(last.entries[i].name) = rstrip(last.path)
          /\ IsSortedStr([i \in 1 .. Len(last.entries) |-> last.entries[i].name])

\* info of a directory, answered with size 0
C10_Witness ==
    /\ last.op = "info" /\ last.ok
    /\ last.entries[1].type = "dir" /\ last.entries[1].size = IntSize(0)
    /\ \E i \in 1 .. Len(lsEntries(dircache, remote, DirA)) :
          lsEntries(dircache, remote, DirA)[i].type = "file"


(***************************************************************************)
(* Properties of transactional writes, checked under SpecFile.             *)
(***************************************************************************)
Contains(s, x) == \E i \in 1 .. Len(s) : s[i] = x

\* the last call was the first commit or discard of its handle to succeed
FirstEnd(op) == last.op = op /\ last.ok /\ last.first

\* C6: for a handle opened on T for writing with autocommit=false, after
\* the bytes B were written and flushed by one or more _upload_chunk calls,
\* commit() leaves T a file holding exactly B and nothing at the staging
\* path; a list of T's parent then contains T and a list of the temp
\* directory does not contain the staging path.
C6_CommitPublishes ==
    (FirstEnd("commit") /\ hs[last.h].buffer = <<>> /\ hs[last.h].uploads >= 1)
    => /\ remote[hs[last.h].target] = FileObj(hs[last.h].written)
       /\ remote[hs[last.h].path] = NoObj
       /\ Contains(lsNames(dircache, remote, rsplitHead(hs[last.h].target)),
                   hs[last.h].target)
       /\ ~Contains(lsNames(dircache, remote, tempdir), hs[last.h].path)

\* a commit of bytes sent by two uploads, onto a path that did not exist,
\* with the listings of both directories cached before it
C6_Witness ==
    /\ FirstEnd("commit")
    /\ hs[last.h].buffer = <<>> /\ hs[last.h].uploads >= 2
    /\ Len(hs[last.h].written) >= 2
    /\ hs[last.h].target = FileB
    /\ {DirA, tempdir} \subseteq last.keys

\* C7: for a handle opened on T for writing with autocommit=false,
\* discard() after writes leaves nothing at the staging path and the object
\* at T exactly as it was before the handle was opened (absent if it was
\* absent); the discard step itself changes T in no state and sends no
\* command that names T.
C7_DiscardLeavesTarget ==
    /\ [](\A h \in Handles :
            (last.op = "discard" /\ last.h = h /\ last.first /\ hs[h].hasTarget)
            => /\ remote[hs[h].path] = NoObj
               /\ remote[hs[h].target] = hs[h].before)
    /\ [][\A h \in Handles :
            (last'.op = "discard" /\ last'.h = h /\ hs[h].hasTarget)
            => /\ remote'[hs[h].path] = NoObj
               /\ remote'[hs[h].target] = remote[hs[h].target]
               /\ \A i \in 1 .. Len(last'.cmds) :
                     /\ last'.cmds[i].arg # hs[h].target
                     /\ last'.cmds[i].arg2 # hs[h].target]_vars

\* a discard that deleted the staged bytes of a handle whose target exists
C7_Witness ==
    /\ FirstEnd("discard")
    /\ hs[last.h].hasTarget /\ hs[last.h].uploads >= 1
    /\ hs[last.h].written # <<>>
    /\ remote[hs[last.h].target] = FileObj(InitData)
    /\ remote[hs[last.h].path] = NoObj

\* C8: in every state between the opening of a handle with autocommit=false
\* on T and its commit, the object at T is what it was at the opening;
\* every _upload_chunk of the handle stores to the staging path only, which
\* lies in the temp directory and differs from T.
C8_UploadsStayStaged ==
    /\ [](\A h \in Handles :
            (hs[h].st = "open" /\ hs[h].hasTarget /\ hs[h].fin = "none")
            => remote[hs[h].target] = hs[h].before)
    /\ [][\A h \in Handles :
            (last'.op = "upload_chunk" /\ last'.h = h /\ hs[h].hasTarget)
            => /\ \A p \in ObjPaths \ {hs[h].path} : remote'[p] = remote[p]
               /\ hs[h].path # hs[h].target
               /\ rsplitHead(hs[h].path) = tempdir
               /\ \A i \in 1 .. Len(last'.cmds) :
                     last'.cmds[i].arg = hs[h].path]_vars

\* a second upload of a staged handle whose target exists
C8_Witness ==
    /\ last.op = "upload_chunk"
    /\ hs[last.h].hasTarget /\ hs[last.h].uploads >= 2
    /\ hs[last.h].fin = "none"
    /\ remote[hs[last.h].target] = FileObj(InitData)
    /\ remote[hs[last.h].path] = FileObj(hs[last.h].written)

\* ---------------------------------------------------------------------------
\* C11: info(path) fails with the NotFoundError kind, and no other error kind,
\* whenever the parent directory could be listed but none of its entries has
\* the fully-qualified name path.
C11_InfoFailsNotFound ==
    (last.op = "info" /\ ~last.ok) => last.err = "NotFoundError"

(***************************************************************************)
(* Properties of handle construction, checked under SpecRead.              *)
(***************************************************************************)
\* the path the caller gave to open
CallerPath(f) == IF f.hasTarget THEN f.target ELSE f.path

\* C12: a handle is given a staging path under tempdir, its own path kept as
\* the target, exactly when autocommit is false and the mode is a write mode;
\* a handle opened for reading keeps the caller's path, whatever autocommit
\* is, and that is the path its range fetches retrieve from.
C12_StagedIffTransactionalWrite ==
    /\ last.op = "open" =>
          LET f == hs[last.h]
          IN /\ f.hasTarget <=> (f.autocommit = FALSE /\ f.mode = "wb")
             /\ f.hasTarget => (f.target = last.path /\ f.path \in StagePaths)
             /\ ~f.hasTarget => f.path = last.path
             /\ f.mode = "rb" => f.path = last.path
    /\ last.op \in {"retr", "fetch_error"} =>
          /\ ~hs[last.h].hasTarget
          /\ last.cmds # <<>> => last.cmds[1].arg = CallerPath(hs[last.h])

(***************************************************************************)
(* Properties of the abort of a ranged read, checked under SpecRead.       *)
(***************************************************************************)
Overrun(f) == f.chunks > 0 /\ f.total > f.end - f.start

\* C13: during _fetch_range the abort is issued exactly when a received chunk
\* makes the running total exceed end - start: once, in the callback for that
\* chunk, after the cut chunk has been appended and before the call returns;
\* nothing is appended after it, and a call whose total never exceeds
\* end - start issues no abort.
C13_AbortExactlyOnOverrun ==
    LET n == Len(fetch.log)
    IN /\ fetch.aborts = Cardinality({i \in 1 .. n : fetch.log[i] = "abort"})
       /\ fetch.aborts <= 1
       /\ fetch.aborts = 1 <=> Overrun(fetch)
       /\ fetch.aborts = 1 =>
             /\ n = fetch.chunks + 1
             /\ fetch.log[n] = "abort" /\ fetch.log[n - 1] = "append"
             /\ fetch.st # "streaming"
             /\ Len(fetch.out) = (IF fetch.end > fetch.start
                                  THEN fetch.end - fetch.start ELSE 0)
       /\ fetch.st = "streaming" => fetch.aborts = 0
       /\ last.op = "fetch_range" =>
             (Contains(last.cmds, Cmd("ABOR", <<>>, <<>>, -1)) <=> Overrun(fetch))

\* a read that returned after the third chunk overran the range
C13_Witness ==
    /\ last.op = "fetch_range"
    /\ fetch.log = <<"append", "append", "abort">>
    /\ Len(last.data) = last.end - last.start

(***************************************************************************)
(* Properties of the uploads of a write handle, checked under SpecFile.    *)
(***************************************************************************)
\* C14: each _upload_chunk stores the whole buffer, read from its start, at
\* the restart offset that is the number of bytes already uploaded, so once
\* every buffered byte has been flushed the object at the handle's path is
\* the concatenation, in write order, of all the bytes written to the handle;
\* _upload_chunk reports success.
C14_UploadsConcatenate ==
    /\ \A h \in Handles :
          (hs[h].st = "open" /\ hs[h].mode = "wb" /\ hs[h].fin = "none") =>
             /\ hs[h].offset + Len(hs[h].buffer) = Len(hs[h].written)
             /\ (hs[h].uploads >= 1 /\ hs[h].buffer = <<>>) =>
                   remote[hs[h].path] = FileObj(hs[h].written)
    /\ last.op = "upload_chunk" =>
          /\ last.ok
          /\ hs[last.h].buffer = <<>>
          /\ last.cmds[1].rest < hs[last.h].offset
          /\ SubSeq(remote[last.path].data, last.cmds[1].rest + 1, hs[last.h].offset)
                = SubSeq(hs[last.h].written, last.cmds[1].rest + 1, hs[last.h].offset)

\* the second flush of a handle has appended its bytes after the first's
C14_Witness ==
    /\ last.op = "upload_chunk"
    /\ hs[last.h].uploads >= 2 /\ hs[last.h].fin = "none"
    /\ last.cmds[1].rest > 0
    /\ remote[hs[last.h].path] = FileObj(hs[last.h].written)

(***************************************************************************)
(* Properties of rename, checked under SpecMv, where files move inside     *)
(* DirA and between DirA and tempdir.                                      *)
(***************************************************************************)
\* after a rename that succeeded neither parent has a cache entry
MvDroppedParents ==
    /\ rsplitHead(last.path) \notin DOMAIN dircache
    /\ rsplitHead(last.path2) \notin DOMAIN dircache
    /\ lsMiss(dircache, rsplitHead(last.path))
    /\ lsMiss(dircache, rsplitHead(last.path2))

\* what the next list of path's parent returns
NextListing(path) == lsNames(dircache, remote, rsplitHead(path))

\* C15 as stated: after a successful rename(path1, path2) the cache has no
\* entry for the parent of path1 nor of path2, also when the parents differ,
\* so the next list of either parent is a fresh listing in which path1 is
\* absent and path2 is present.
C15_RenameListsPath2NotPath1 ==
    (last.op = "mv" /\ last.ok) =>
       /\ MvDroppedParents
       /\ ~Contains(NextListing(last.path), last.path)
       /\ Contains(NextListing(last.path2), last.path2)

\* C15, amended: as above with path1 absent when path1 and path2 differ; and
\* a rename whose command fails leaves the cache unchanged.
C15_RenameDropsBothParents ==
    /\ []((last.op = "mv" /\ last.ok) =>
             /\ MvDroppedParents
             /\ last.path # last.path2 => ~Contains(NextListing(last.path), last.path)
             /\ Contains(NextListing(last.path2), last.path2))
    /\ [][(last'.op = "mv" /\ ~last'.ok) => (dircache' = dircache /\ remote' = remote)]_vars

\* a file moved from DirA to tempdir while both listings were cached
C15_Witness ==
    /\ last.op = "mv" /\ last.ok
    /\ rsplitHead(last.path) = DirA /\ rsplitHead(last.path2) = tempdir
    /\ {DirA, tempdir} \subseteq last.keys
    /\ DOMAIN dircache = {}

(***************************************************************************)
(* Properties of the end of a transactional handle, checked under          *)
(* SpecFile.                                                               *)
(***************************************************************************)
\* handle h staged its writes and has been committed or discarded, with no
\* upload since
Ended(h) ==
    /\ hs[h].hasTarget /\ hs[h].mode = "wb"
    /\ hs[h].fin # "none" /\ ~hs[h].late

C17_MkdirRmdirKeepCache ==
    /\ [](/\ last.op = "mkdir" => last.cmds = <<Cmd("MKD", last.path, <<>>, -1)>>
          /\ last.op = "rmdir" => last.cmds = <<Cmd("RMD", last.path, <<>>, -1)>>)
    /\ [][last'.op \in {"mkdir", "rmdir"} => dircache' = dircache]_vars

\* a directory made while its parent's listing, without it, was cached
C17_Witness ==
    /\ last.op = "mkdir" /\ last.ok
    /\ rsplitHead(last.path) \in last.keys
    /\ rsplitHead(last.path) \in DOMAIN dircache
    /\ ~Contains(NextListing(last.path), last.path)

(***************************************************************************)
(* Coherence of the listing cache, checked under SpecFile, where nothing   *)
(* makes or removes a directory and only this session changes the server.  *)
(***************************************************************************)
\* C18: after any sequence of list, remove, rename, invalidate_cache and
\* writes through autocommit and transactional handles (_upload_chunk,
\* commit, discard), with no mkdir or rmdir and no change from outside, every
\* entry of the cache equals the present entries of its directory: a list
\* answered from the cache returns what a fresh listing would.
C18_CacheCoherent ==
    \A k \in DOMAIN dircache :
       /\ lsNames(dircache, remote, k) = lsNames(EmptyCache, remote, k)
       /\ lsEntries(dircache, remote, k) = lsEntries(EmptyCache, remote, k)

(***************************************************************************)
(* The control connection after a ranged read, checked under SpecRead.     *)
(***************************************************************************)
\* C19: whenever _fetch_range returns after stopping before the server has
\* sent the whole object (the range ends before the end of the file, the
\* case total == end - start at a chunk boundary included), the retrieve has
\* been aborted or has completed: none is in flight when the next command is
\* issued.
C19_NoRetrieveInFlight ==
    (last.op = "fetch_range" /\ last.start <= last.end /\ last.end < Len(Fetched))
    => fetch.conn \in {"aborted", "idle"}

(***************************************************************************)
(* commit and discard of an autocommit handle, checked under SpecFile.     *)
(***************************************************************************)
\* C20: on a write handle opened with autocommit true, commit() and discard()
\* do not change the remote filesystem; discard() in particular never deletes
\* the object at the caller's path, which the handle has been writing to.
C20_AutocommitEndKeepsObject ==
    \A h \in Handles :
       (/\ last.op \in {"commit", "discard"} /\ last.h = h /\ last.first
        /\ hs[h].mode = "wb" /\ hs[h].autocommit /\ ~hs[h].hasTarget
        /\ hs[h].uploads >= 1 /\ hs[h].buffer = <<>>)
       => /\ remote[hs[h].path] = FileObj(hs[h].written)
          /\ hs[h].fin = "none"

====
